---- MODULE Spec2Model ----
(***************************************************************************)
(* Model of libavfilter/sink_buffer.c: the buffersink / abuffersink frame  *)
(* queue.  The sink stores frame handles pushed by end_frame() in an       *)
(* AVFifoBuffer and hands them out through av_buffersink_get_buffer_ref(). *)
(*                                                                         *)
(* Frame handles (AVFilterBufferRef pointers) are modelled as positive     *)
(* integers 1, 2, ... in the order the filter graph presents them in       *)
(* inlink->cur_buf; 0 is the NULL pointer.  Sizes are kept in bytes, as    *)
(* the AVFifoBuffer interface reports them.                                *)
(***************************************************************************)
EXTENDS Integers, Sequences, FiniteSets, TLC

\* ------------------------------------------------------------------ bounds
\* Number of frames the filter graph presents to the sink's input.
MaxFrames == 10
\* Largest value the upstream availability hint (ff_poll_frame) reports.
MaxHint == 2
\* The count of consecutive peeks is kept up to this many.
MaxPeekRun == 2
\* SpecWarn: frames presented, consume-mode pulls made and growths failed.
MaxWarnFrames == 1001
MaxWarnPulls == 1
MaxWarnDrops == 1
\* Format lists the caller may supply: up to MaxListLen codes out of
\* 0 .. MaxFmt, then the terminator.
MaxListLen == 2
MaxFmt == 1
\* SpecLimit: warnings followed.
MaxLimitWarnings == 30

\* ------------------------------------------------- constants of the program
FIFO_INIT_SIZE == 8
\* size in bytes of one AVFilterBufferRef pointer
SizeofPtr == 8
\* unsigned is 32 bits wide.  A value is kept as its two 16-bit halves,
\* [hi, lo] standing for hi * 2^16 + lo, so that products stay in range.
HalfModulus == 65536
WARNING_LIMIT_INIT == 100
AV_BUFFERSINK_FLAG_PEEK == 1
AV_BUFFERSINK_FLAG_NO_REQUEST == 2
EAGAIN == 11
ENOMEM == 12
EINVAL == 22
AVERROR_EOF == -541478725
NULL == 0

AVERROR(e) == -e

\* The unsigned value of the integer n, 0 <= n < 2^31.
U32(n) == [hi |-> n \div HalfModulus, lo |-> n % HalfModulus]

\* w * 10 with the carry from the low half to the high half left out.
U32Times10_no_carry(w) ==
    [hi |-> (w.hi * 10) % HalfModulus, lo |-> (w.lo * 10) % HalfModulus]

\* w * 10 in unsigned arithmetic: the product modulo 2^32.
U32Times10(w) ==
    LET low == w.lo * 10
    IN  [hi |-> (w.hi * 10 + (low \div HalfModulus)) % HalfModulus,
         lo |-> low % HalfModulus]

\* n >= w for an integer n, 0 <= n < 2^31, and an unsigned w.
GeqU32(n, w) ==
    \/ n \div HalfModulus > w.hi
    \/ n \div HalfModulus = w.hi /\ n % HalfModulus >= w.lo

\* flags & bit, for a one-bit mask
HasFlag(flags, bit) == (flags \div bit) % 2 = 1

\* Values ff_request_frame() may return: success (0, or a positive count),
\* end of stream, would-block, out of memory and a generic failure.
RequestReturns == {0, 1, AVERROR_EOF, AVERROR(EAGAIN), AVERROR(ENOMEM), AVERROR(EINVAL)}

Flags == 0 .. (AV_BUFFERSINK_FLAG_PEEK + AV_BUFFERSINK_FLAG_NO_REQUEST)

\* Values ff_poll_frame() may return: a count of frames, or an error.
PollReturns == -1 .. MaxHint

\* ------------------------------------------------------------ AVFifoBuffer
\* The fifo is a block of cap bytes holding the handles of data, oldest
\* first.  alloc is FALSE for the NULL pointer.
NULL_FIFO == [alloc |-> FALSE, data |-> <<>>, cap |-> 0]

av_fifo_alloc(size) == [alloc |-> TRUE, data |-> <<>>, cap |-> size]

av_fifo_size(f) == Len(f.data) * SizeofPtr

av_fifo_space(f) == f.cap - av_fifo_size(f)

\* Enlarges the block to new_size bytes, keeping the buffered data; a
\* request that is not larger than the block changes nothing.
av_fifo_realloc2(f, new_size) ==
    IF f.cap < new_size THEN [f EXCEPT !.cap = new_size] ELSE f

\* Writes one handle at the write position.  The block is a ring: a write
\* that finds no room lands on the oldest unread handle.
av_fifo_generic_write(f, h) ==
    IF av_fifo_space(f) >= SizeofPtr
    THEN [f EXCEPT !.data = Append(@, h)]
    ELSE [f EXCEPT !.data = Append(Tail(@), h)]

\* Reads one handle from the read position: the handle and the fifo left.
av_fifo_generic_read(f) ==
    [out |-> Head(f.data), fifo |-> [f EXCEPT !.data = Tail(@)]]

\* The handle offs bytes after the read position, not removed.
av_fifo_peek2(f, offs) == f.data[(offs \div SizeofPtr) + 1]

\* --------------------------------------------------------------- variables
VARIABLES
    buf,        \* BufferSinkContext: [fifo, warning_limit, pixel_fmts,
                \* sample_fmts, channel_layouts]
    cur_buf,    \* inlink->cur_buf: the handle of the latest frame presented
    pc,         \* "new" before init, "failed" after an init that failed,
                \* "idle", or "request" while a pull is inside ff_request_frame
    lastOp,     \* the operation that made the latest step
    \* The record of the pull in progress or just completed; cleared by
    \* the next operation that is not part of that pull.
    flags,      \* its flags argument
    ret,        \* its return value
    bufref,     \* its *bufref
    requests,   \* the calls of ff_request_frame it has made
    requestRet, \* what ff_request_frame returned to it
    startSize,  \* av_fifo_size at its entry
    \* The record of the av_buffersink_poll_frame just completed; cleared by
    \* the next operation.
    pollRet,    \* its return value
    pollHint,   \* what ff_poll_frame reported to it
    log,        \* av_log messages, oldest first
    stored,     \* history: handles written to the fifo by end_frame
    pulled,     \* history: handles returned by consume-mode pulls
    lastPeek,   \* history: handle the latest successful peek returned
    peekRun,    \* history: successful peeks since the last consume, counted
                \* up to MaxPeekRun
    released,   \* history: handles passed to avfilter_unref_buffer
    kind,       \* "video" for buffersink, "audio" for abuffersink
    opaque,     \* the caller's AVBufferSinkParams or AVABufferSinkParams and
                \* the arrays it points to, as they are now
    supplied,   \* history: opaque as it was when init was called
    initRet,    \* what init returned
    initLog,    \* av_log messages of init
    negotiated  \* what the latest query_formats set on the filter

vars == <<buf, cur_buf, pc, flags, ret, bufref, requests, requestRet,
          startSize, lastOp, pollRet, pollHint, log, stored, pulled, lastPeek,
          peekRun, released, kind, opaque, supplied, initRet, initLog,
          negotiated>>

pullVars == <<flags, ret, bufref, requests, requestRet, startSize>>
peekVars == <<lastPeek, peekRun>>
pollVars == <<pollRet, pollHint>>
initVars == <<kind, opaque, supplied, initRet, initLog, negotiated>>

\* ------------------------------------------------------------- common_init
\* A list that is absent: the null pointer.  A list that is present ends
\* with the terminator -1, so it is never empty.
NULL_LIST == <<>>

\* The private context as the framework hands it to init: all zero.
ZeroContext ==
    [fifo |-> NULL_FIFO, warning_limit |-> U32(0),
     pixel_fmts |-> NULL_LIST, sample_fmts |-> NULL_LIST,
     channel_layouts |-> NULL_LIST]

\* common_init failing after the fifo has been allocated, and leaving it.
common_init_keeps_fifo(b, alloc_ok) ==
    [ret |-> IF alloc_ok THEN 0 ELSE AVERROR(ENOMEM),
     buf |-> [b EXCEPT !.fifo = av_fifo_alloc(FIFO_INIT_SIZE * SizeofPtr),
                       !.warning_limit = U32(WARNING_LIMIT_INIT)]]

common_init(b, alloc_ok) ==
    IF ~alloc_ok
    THEN [ret |-> AVERROR(ENOMEM), buf |-> [b EXCEPT !.fifo = NULL_FIFO]]
    ELSE [ret |-> 0,
          buf |-> [b EXCEPT !.fifo = av_fifo_alloc(FIFO_INIT_SIZE * SizeofPtr),
                   !.warning_limit = U32(WARNING_LIMIT_INIT)]]

\* ---------------------------------------------------------------- end_frame
\* end_frame leaving after a growth that succeeded, the handle not written.
end_frame_grow_only(b, cur, realloc_ok) ==
    LET full == av_fifo_space(b.fifo) < SizeofPtr
    IN  IF full
        THEN [buf |-> IF realloc_ok
                      THEN [b EXCEPT !.fifo =
                                av_fifo_realloc2(b.fifo, av_fifo_size(b.fifo) * 2)]
                      ELSE b,
              log |-> IF realloc_ok THEN <<>> ELSE <<[level |-> "ERROR", n |-> 0]>>]
        ELSE [buf |-> [b EXCEPT !.fifo = av_fifo_generic_write(b.fifo, cur)],
              log |-> <<>>]

\* end_frame leaving the threshold as it is after a warning.
end_frame_keeps_limit(b, cur, realloc_ok) ==
    LET full == av_fifo_space(b.fifo) < SizeofPtr
    IN  IF full /\ ~realloc_ok
        THEN [buf |-> b, log |-> <<[level |-> "ERROR", n |-> 0]>>]
        ELSE LET grown   == IF full
                            THEN av_fifo_realloc2(b.fifo, av_fifo_size(b.fifo) * 2)
                            ELSE b.fifo
                 written == av_fifo_generic_write(grown, cur)
                 warn    == /\ b.warning_limit # U32(0)
                            /\ GeqU32(av_fifo_size(written) \div SizeofPtr,
                                      b.warning_limit)
             IN  [buf |-> [b EXCEPT !.fifo = written, !.warning_limit = b.warning_limit],
                  log |-> IF warn
                          THEN <<[level |-> "WARNING", n |-> b.warning_limit]>>
                          ELSE <<>>]

\* end_frame going on to write after a growth that failed: the return that
\* follows the error message is missing.
end_frame_no_return(b, cur, realloc_ok) ==
    LET full    == av_fifo_space(b.fifo) < SizeofPtr
        grown   == IF full /\ realloc_ok
                   THEN av_fifo_realloc2(b.fifo, av_fifo_size(b.fifo) * 2)
                   ELSE b.fifo
        written == av_fifo_generic_write(grown, cur)
        warn    == /\ b.warning_limit # U32(0)
                   /\ GeqU32(av_fifo_size(written) \div SizeofPtr, b.warning_limit)
    IN  [buf |-> [b EXCEPT !.fifo = written,
                  !.warning_limit = IF warn
                                    THEN U32Times10(b.warning_limit)
                                    ELSE b.warning_limit],
         log |-> (IF full /\ ~realloc_ok
                  THEN <<[level |-> "ERROR", n |-> 0]>>
                  ELSE <<>>)
                 \o (IF warn
                     THEN <<[level |-> "WARNING", n |-> b.warning_limit]>>
                     ELSE <<>>)]

\* end_frame treating the warning threshold as a limit: the push that would
\* bring the depth to the threshold is warned about and not stored.
end_frame_rejects_at_limit(b, cur, realloc_ok) ==
    LET full == av_fifo_space(b.fifo) < SizeofPtr
        warn == /\ b.warning_limit # U32(0)
                /\ GeqU32(av_fifo_size(b.fifo) \div SizeofPtr + 1,
                          b.warning_limit)
    IN  IF warn
        THEN [buf |-> [b EXCEPT !.fifo = b.fifo,
                       !.warning_limit = U32Times10(b.warning_limit)],
              log |-> <<[level |-> "WARNING", n |-> b.warning_limit]>>]
        ELSE IF full /\ ~realloc_ok
        THEN [buf |-> b, log |-> <<[level |-> "ERROR", n |-> 0]>>]
        ELSE [buf |-> [b EXCEPT !.fifo = av_fifo_generic_write(
                                    IF full
                                    THEN av_fifo_realloc2(b.fifo,
                                             av_fifo_size(b.fifo) * 2)
                                    ELSE b.fifo, cur),
                       !.warning_limit = b.warning_limit],
              log |-> <<>>]

\* end_frame enlarging a full fifo by one handle, not to twice its size.
end_frame_grows_by_one(b, cur, realloc_ok) ==
    LET full == av_fifo_space(b.fifo) < SizeofPtr
    IN  IF full /\ ~realloc_ok
        THEN [buf |-> b, log |-> <<[level |-> "ERROR", n |-> 0]>>]
        ELSE LET grown   == IF full
                            THEN av_fifo_realloc2(b.fifo,
                                     av_fifo_size(b.fifo) + SizeofPtr)
                            ELSE b.fifo
                 written == av_fifo_generic_write(grown, cur)
                 warn    == /\ b.warning_limit # U32(0)
                            /\ GeqU32(av_fifo_size(written) \div SizeofPtr,
                                      b.warning_limit)
             IN  [buf |-> [b EXCEPT !.fifo = written,
                           !.warning_limit =
                               IF warn
                               THEN U32Times10(b.warning_limit)
                               ELSE b.warning_limit],
                  log |-> IF warn
                          THEN <<[level |-> "WARNING", n |-> b.warning_limit]>>
                          ELSE <<>>]

\* The end of end_frame on its own: the test of the threshold and what
\* follows it.  reached tells whether the depth after the write is at
\* least the threshold.
end_frame_warning(b, reached) ==
    IF b.warning_limit # U32(0) /\ reached
    THEN [buf |-> [b EXCEPT !.warning_limit = U32Times10(b.warning_limit)],
          log |-> <<[level |-> "WARNING", n |-> b.warning_limit]>>]
    ELSE [buf |-> b, log |-> <<>>]

\* end_frame without the growth step: the handle is written whether or not
\* the fifo has room for it.
end_frame_no_grow(b, cur, realloc_ok) ==
    LET written == av_fifo_generic_write(b.fifo, cur)
        warn    == /\ b.warning_limit # U32(0)
                   /\ GeqU32(av_fifo_size(written) \div SizeofPtr, b.warning_limit)
    IN  [buf |-> [b EXCEPT !.fifo = written,
                  !.warning_limit = IF warn
                                    THEN U32Times10(b.warning_limit)
                                    ELSE b.warning_limit],
         log |-> IF warn
                 THEN <<[level |-> "WARNING", n |-> b.warning_limit]>>
                 ELSE <<>>]

\* The push: cur is inlink->cur_buf, realloc_ok says whether av_fifo_realloc2
\* succeeds should it be called.  Yields the context left and the messages
\* logged.
end_frame(b, cur, realloc_ok) ==
    LET full == av_fifo_space(b.fifo) < SizeofPtr
    IN  IF full /\ ~realloc_ok
        THEN [buf |-> b, log |-> <<[level |-> "ERROR", n |-> 0]>>]
        ELSE LET grown   == IF full
                            THEN av_fifo_realloc2(b.fifo, av_fifo_size(b.fifo) * 2)
                            ELSE b.fifo
                 written == av_fifo_generic_write(grown, cur)
                 warn    == /\ b.warning_limit # U32(0)
                            /\ GeqU32(av_fifo_size(written) \div SizeofPtr,
                                      b.warning_limit)
             IN  [buf |-> [b EXCEPT !.fifo = written,
                           !.warning_limit =
                               IF warn
                               THEN U32Times10(b.warning_limit)
                               ELSE b.warning_limit],
                  log |-> IF warn
                          THEN <<[level |-> "WARNING", n |-> b.warning_limit]>>
                          ELSE <<>>]

\* --------------------------------------------- av_buffersink_get_buffer_ref
\* The entry of the pull testing the wrong flag before it fails with EAGAIN.
get_buffer_ref_entry_wrong_flag(b, fl) ==
    IF av_fifo_size(b.fifo) = 0
    THEN IF HasFlag(fl, AV_BUFFERSINK_FLAG_PEEK)
         THEN "eagain"
         ELSE "request"
    ELSE "deliver"

\* The entry of the pull calling upstream whenever the flags allow it,
\* whether or not the fifo is empty.
get_buffer_ref_entry_always_requests(b, fl) ==
    IF HasFlag(fl, AV_BUFFERSINK_FLAG_NO_REQUEST)
    THEN IF av_fifo_size(b.fifo) = 0 THEN "eagain" ELSE "deliver"
    ELSE "request"

\* What the pull does on entry: fail with EAGAIN, call ff_request_frame, or
\* go on to deliver from the fifo.
get_buffer_ref_entry(b, fl) ==
    IF av_fifo_size(b.fifo) = 0
    THEN IF HasFlag(fl, AV_BUFFERSINK_FLAG_NO_REQUEST)
         THEN "eagain"
         ELSE "request"
    ELSE "deliver"

\* The delivery with the peek test inverted: a consume peeks, a peek reads.
get_buffer_ref_deliver_swapped(b, fl) ==
    IF av_fifo_size(b.fifo) = 0
    THEN [ret |-> AVERROR(EINVAL), bufref |-> NULL, buf |-> b]
    ELSE IF ~HasFlag(fl, AV_BUFFERSINK_FLAG_PEEK)
         THEN [ret |-> 0, bufref |-> av_fifo_peek2(b.fifo, 0), buf |-> b]
         ELSE LET r == av_fifo_generic_read(b.fifo)
              IN  [ret |-> 0, bufref |-> r.out, buf |-> [b EXCEPT !.fifo = r.fifo]]

\* The delivery reading the handle out of the fifo in both modes.
get_buffer_ref_deliver_always_reads(b, fl) ==
    IF av_fifo_size(b.fifo) = 0
    THEN [ret |-> AVERROR(EINVAL), bufref |-> NULL, buf |-> b]
    ELSE LET r == av_fifo_generic_read(b.fifo)
         IN  [ret |-> 0, bufref |-> r.out, buf |-> [b EXCEPT !.fifo = r.fifo]]

\* The delivery with a peek that looks at the newest handle, not the oldest.
get_buffer_ref_deliver_peeks_newest(b, fl) ==
    IF av_fifo_size(b.fifo) = 0
    THEN [ret |-> AVERROR(EINVAL), bufref |-> NULL, buf |-> b]
    ELSE IF HasFlag(fl, AV_BUFFERSINK_FLAG_PEEK)
         THEN [ret |-> 0,
               bufref |-> av_fifo_peek2(b.fifo, av_fifo_size(b.fifo) - SizeofPtr),
               buf |-> b]
         ELSE LET r == av_fifo_generic_read(b.fifo)
              IN  [ret |-> 0, bufref |-> r.out, buf |-> [b EXCEPT !.fifo = r.fifo]]

\* The delivery reporting an empty fifo as would-block.
get_buffer_ref_deliver_eagain(b, fl) ==
    IF av_fifo_size(b.fifo) = 0
    THEN [ret |-> AVERROR(EAGAIN), bufref |-> NULL, buf |-> b]
    ELSE IF HasFlag(fl, AV_BUFFERSINK_FLAG_PEEK)
         THEN [ret |-> 0, bufref |-> av_fifo_peek2(b.fifo, 0), buf |-> b]
         ELSE LET r == av_fifo_generic_read(b.fifo)
              IN  [ret |-> 0, bufref |-> r.out, buf |-> [b EXCEPT !.fifo = r.fifo]]

\* The second emptiness test and the peek or read that follows it.
get_buffer_ref_deliver(b, fl) ==
    IF av_fifo_size(b.fifo) = 0
    THEN [ret |-> AVERROR(EINVAL), bufref |-> NULL, buf |-> b]
    ELSE IF HasFlag(fl, AV_BUFFERSINK_FLAG_PEEK)
         THEN [ret |-> 0, bufref |-> av_fifo_peek2(b.fifo, 0), buf |-> b]
         ELSE LET r == av_fifo_generic_read(b.fifo)
              IN  [ret |-> 0, bufref |-> r.out, buf |-> [b EXCEPT !.fifo = r.fifo]]

\* The pull going on to deliver whatever ff_request_frame returned.
get_buffer_ref_requested_unchecked(b, fl, r) ==
    get_buffer_ref_deliver(b, fl)

\* The pull discarding what the fifo holds when ff_request_frame failed.
get_buffer_ref_requested_flushes(b, fl, r) ==
    IF r < 0
    THEN [ret |-> r, bufref |-> NULL,
          buf |-> [b EXCEPT !.fifo.data = <<>>]]
    ELSE get_buffer_ref_deliver(b, fl)

\* The pull reading the head of the fifo before it looks at what
\* ff_request_frame returned.
get_buffer_ref_requested_reads_first(b, fl, r) ==
    IF r < 0 /\ av_fifo_size(b.fifo) # 0
    THEN LET res == av_fifo_generic_read(b.fifo)
         IN  [ret |-> r, bufref |-> res.out,
              buf |-> [b EXCEPT !.fifo = res.fifo]]
    ELSE IF r < 0
    THEN [ret |-> r, bufref |-> NULL, buf |-> b]
    ELSE get_buffer_ref_deliver(b, fl)

\* The pull after ff_request_frame has returned r.
get_buffer_ref_requested(b, fl, r) ==
    IF r < 0
    THEN [ret |-> r, bufref |-> NULL, buf |-> b]
    ELSE get_buffer_ref_deliver(b, fl)

\* ------------------------------------------------- av_buffersink_poll_frame
\* The depth query adding the size in bytes, not in handles, to the hint.
av_buffersink_poll_frame_bytes(b, hint) ==
    av_fifo_size(b.fifo) + hint

av_buffersink_poll_frame(b, hint) ==
    (av_fifo_size(b.fifo) \div SizeofPtr) + hint

\* ------------------------------------------------------------ common_uninit
RECURSIVE unref_all(_, _)

\* The loop stopping one handle early: > where the code has >=.
unref_all_stops_early(f, unrefd) ==
    IF av_fifo_size(f) > SizeofPtr
    THEN LET r == av_fifo_generic_read(f)
         IN  unref_all(r.fifo, Append(unrefd, r.out))
    ELSE unrefd

\* The loop of common_uninit: reads every handle left and unrefs it.
unref_all(f, unrefd) ==
    IF av_fifo_size(f) >= SizeofPtr
    THEN LET r == av_fifo_generic_read(f)
         IN  unref_all(r.fifo, Append(unrefd, r.out))
    ELSE unrefd

common_uninit(b) ==
    IF b.fifo.alloc
    THEN [buf |-> [b EXCEPT !.fifo = NULL_FIFO], unrefd |-> unref_all(b.fifo, <<>>)]
    ELSE [buf |-> b, unrefd |-> <<>>]

\* ----------------------------------------------------------- format lists
Kinds == {"video", "audio"}

\* What av_buffersink_params_alloc and av_abuffersink_params_alloc return,
\* with the lists the caller has put in; present is FALSE for no parameters.
NULL_PARAMS ==
    [present |-> FALSE, pixel_fmts |-> NULL_LIST, sample_fmts |-> NULL_LIST,
     channel_layouts |-> NULL_LIST]

\* The copy of a terminated list, or NULL when the allocation fails.
ff_copy_int_list(list, ok) == IF ok THEN list ELSE NULL_LIST

ff_copy_int64_list(list, ok) == IF ok THEN list ELSE NULL_LIST

\* A format set not set on the filter.
UNSET == [how |-> "unset", list |-> <<>>]

\* The format set holding the codes of a terminated list.
ff_make_format_list(list) ==
    [how |-> "list", list |-> SubSeq(list, 1, Len(list) - 1)]

avfilter_make_format64_list(list) ==
    [how |-> "list", list |-> SubSeq(list, 1, Len(list) - 1)]

\* The sets ff_default_query_formats sets: everything the library knows.
ff_default_query_formats ==
    [ret |-> 0,
     formats |-> [how |-> "default", list |-> <<>>],
     channel_layouts |-> [how |-> "default", list |-> <<>>]]

\* vsink_init.  params is NULL whatever args is: the lines that took it
\* from args are commented out.
vsink_init(b, args, copy_ok, alloc_ok) ==
    LET params == NULL_PARAMS
    IN  IF ~params.present
        THEN LET r == common_init([b EXCEPT !.pixel_fmts = NULL_LIST], alloc_ok)
             IN  [ret |-> r.ret, buf |-> r.buf,
                  log |-> <<"No opaque field provided">>]
        ELSE LET copy == ff_copy_int_list(params.pixel_fmts, copy_ok)
                 r    == common_init([b EXCEPT !.pixel_fmts = copy], alloc_ok)
             IN  IF copy = NULL_LIST
                 THEN [ret |-> AVERROR(ENOMEM),
                       buf |-> [b EXCEPT !.pixel_fmts = copy], log |-> <<>>]
                 ELSE [ret |-> r.ret, buf |-> r.buf, log |-> <<>>]

vsink_uninit(b) == common_uninit([b EXCEPT !.pixel_fmts = NULL_LIST])

vsink_query_formats(b) ==
    IF b.pixel_fmts # NULL_LIST
    THEN [ret |-> 0, formats |-> ff_make_format_list(b.pixel_fmts),
          channel_layouts |-> UNSET]
    ELSE ff_default_query_formats

\* asink_init.  params is NULL whatever args is, as in vsink_init.
asink_init(b, args, fmts_ok, layouts_ok, alloc_ok) ==
    LET params == NULL_PARAMS
        want1  == params.present /\ params.sample_fmts # NULL_LIST
        b1     == IF want1
                  THEN [b EXCEPT !.sample_fmts =
                                     ff_copy_int_list(params.sample_fmts, fmts_ok)]
                  ELSE b
        fail1  == want1 /\ b1.sample_fmts = NULL_LIST
        want2  == ~fail1 /\ params.present /\ params.channel_layouts # NULL_LIST
        b2     == IF want2
                  THEN [b1 EXCEPT !.channel_layouts =
                                      ff_copy_int64_list(params.channel_layouts,
                                                         layouts_ok)]
                  ELSE b1
        fail2  == want2 /\ b2.channel_layouts = NULL_LIST
        r      == common_init(b2, alloc_ok)
    IN  IF ~fail1 /\ ~fail2 /\ r.ret = 0
        THEN [ret |-> 0, buf |-> r.buf, log |-> <<>>]
        ELSE [ret |-> AVERROR(ENOMEM),
              buf |-> [(IF fail1 \/ fail2 THEN b2 ELSE r.buf)
                           EXCEPT !.sample_fmts = NULL_LIST,
                                  !.channel_layouts = NULL_LIST],
              log |-> <<>>]

asink_uninit(b) ==
    common_uninit([b EXCEPT !.sample_fmts = NULL_LIST,
                            !.channel_layouts = NULL_LIST])

\* formats_ok and layouts_ok: whether the format set can be allocated.
asink_query_formats(b, formats_ok, layouts_ok) ==
    LET formats == IF b.sample_fmts # NULL_LIST /\ formats_ok
                   THEN ff_make_format_list(b.sample_fmts)
                   ELSE UNSET
        layouts == IF b.channel_layouts # NULL_LIST /\ layouts_ok
                   THEN avfilter_make_format64_list(b.channel_layouts)
                   ELSE UNSET
    IN  IF b.sample_fmts # NULL_LIST /\ ~formats_ok
        THEN [ret |-> AVERROR(ENOMEM), formats |-> UNSET,
              channel_layouts |-> UNSET]
        ELSE IF b.channel_layouts # NULL_LIST /\ ~layouts_ok
        THEN [ret |-> AVERROR(ENOMEM), formats |-> formats,
              channel_layouts |-> UNSET]
        ELSE [ret |-> 0, formats |-> formats, channel_layouts |-> layouts]

\* The init, uninit and query_formats of the two AVFilter definitions.
init(k, b, args, copy_ok, copy2_ok, alloc_ok) ==
    IF k = "video"
    THEN vsink_init(b, args, copy_ok, alloc_ok)
    ELSE asink_init(b, args, copy_ok, copy2_ok, alloc_ok)

uninit(k, b) == IF k = "video" THEN vsink_uninit(b) ELSE asink_uninit(b)

query_formats(k, b, formats_ok, layouts_ok) ==
    IF k = "video"
    THEN vsink_query_formats(b)
    ELSE asink_query_formats(b, formats_ok, layouts_ok)

\* No query_formats has run.
NOT_NEGOTIATED ==
    [asked |-> FALSE, ret |-> 0, formats |-> UNSET, channel_layouts |-> UNSET]

\* ------------------------------------------------------------------- state
Init ==
    /\ kind \in Kinds
    /\ opaque = NULL_PARAMS
    /\ supplied = NULL_PARAMS
    /\ LET res == init(kind, ZeroContext, opaque, TRUE, TRUE, TRUE)
       IN  /\ buf = res.buf
           /\ initRet = res.ret
           /\ initLog = res.log
    /\ negotiated = NOT_NEGOTIATED
    /\ cur_buf = NULL
    /\ pc = "idle"
    /\ flags = 0
    /\ ret = 0
    /\ bufref = NULL
    /\ requests = 0
    /\ requestRet = 0
    /\ startSize = 0
    /\ lastOp = "init"
    /\ pollRet = 0
    /\ pollHint = 0
    /\ log = <<>>
    /\ stored = <<>>
    /\ pulled = <<>>
    /\ lastPeek = NULL
    /\ peekRun = 0
    /\ released = <<>>

\* No pull is in progress or just completed.
NoPullRecord ==
    /\ flags' = 0
    /\ ret' = 0
    /\ bufref' = NULL
    /\ requests' = 0
    /\ requestRet' = 0
    /\ startSize' = 0

\* No poll has just completed.
NoPollRecord ==
    /\ pollRet' = 0
    /\ pollHint' = 0

\* The histories after a pull has completed with result res under flags fl.
PullDone(res, fl) ==
    /\ buf' = res.buf
    /\ ret' = res.ret
    /\ bufref' = res.bufref
    /\ pc' = "idle"
    /\ lastOp' = "get_buffer_ref"
    /\ pulled' = IF res.ret = 0 /\ ~HasFlag(fl, AV_BUFFERSINK_FLAG_PEEK)
                 THEN Append(pulled, res.bufref)
                 ELSE pulled
    /\ lastPeek' = IF res.ret = 0 /\ HasFlag(fl, AV_BUFFERSINK_FLAG_PEEK)
                   THEN res.bufref
                   ELSE lastPeek
    /\ peekRun' = IF res.ret # 0 THEN peekRun
                  ELSE IF HasFlag(fl, AV_BUFFERSINK_FLAG_PEEK)
                       THEN IF peekRun < MaxPeekRun THEN peekRun + 1 ELSE peekRun
                       ELSE 0

\* The operations below, teardown apart, read buf->fifo without testing it:
\* they are called on a sink that has been initialised and not yet torn down.

\* The filter graph hands the next frame to the sink's input pad: end_frame
\* (video) or filter_samples (audio).  It happens on its own when the graph
\* is driven from its sources, and inside ff_request_frame during a pull.
EndFrameStep(realloc_ok) ==
        /\ buf.fifo.alloc
        /\ cur_buf' = cur_buf + 1
        /\ LET res == end_frame(buf, cur_buf', realloc_ok)
               dropped == av_fifo_space(buf.fifo) < SizeofPtr /\ ~realloc_ok
           IN  /\ buf' = res.buf
               /\ log' = log \o res.log
               /\ stored' = IF dropped THEN stored ELSE Append(stored, cur_buf')
        /\ lastOp' = "end_frame"
        /\ IF pc = "request" THEN UNCHANGED pullVars ELSE NoPullRecord
        /\ NoPollRecord
        /\ UNCHANGED <<pc, pulled, peekVars, released, initVars>>

EndFrame ==
    \E realloc_ok \in BOOLEAN :
        /\ cur_buf < MaxFrames
        /\ EndFrameStep(realloc_ok)

\* The consumer calls av_buffersink_get_buffer_ref(ctx, &bufref, fl).
GetBufferRefStep(fl) ==
        /\ pc = "idle"
        /\ buf.fifo.alloc
        /\ flags' = fl
        /\ startSize' = av_fifo_size(buf.fifo)
        /\ LET way == get_buffer_ref_entry(buf, fl)
           IN  CASE way = "eagain" ->
                        /\ requests' = 0
                        /\ PullDone([ret |-> AVERROR(EAGAIN), bufref |-> NULL,
                                     buf |-> buf], fl)
                 [] way = "request" ->
                        /\ requests' = 1
                        /\ pc' = "request"
                        /\ bufref' = NULL
                        /\ ret' = 0
                        /\ lastOp' = "ff_request_frame"
                        /\ UNCHANGED <<buf, pulled, peekVars>>
                 [] way = "deliver" ->
                        /\ requests' = 0
                        /\ PullDone(get_buffer_ref_deliver(buf, fl), fl)
        /\ requestRet' = 0
        /\ NoPollRecord
        /\ UNCHANGED <<cur_buf, log, stored, released, initVars>>

GetBufferRef == \E fl \in Flags : GetBufferRefStep(fl)

\* ff_request_frame returns r to the pull that called it.
RequestFrameReturn ==
    \E r \in RequestReturns :
        /\ pc = "request"
        /\ requestRet' = r
        /\ PullDone(get_buffer_ref_requested(buf, flags, r), flags)
        /\ UNCHANGED <<cur_buf, flags, requests, startSize, pollVars, log,
                       stored, released, initVars>>

\* The consumer calls av_buffersink_poll_frame; ff_poll_frame reports hint.
PollFrame ==
    \E hint \in PollReturns :
        /\ pc = "idle"
        /\ buf.fifo.alloc
        /\ pollHint' = hint
        /\ pollRet' = av_buffersink_poll_frame(buf, hint)
        /\ lastOp' = "poll_frame"
        /\ NoPullRecord
        /\ UNCHANGED <<buf, cur_buf, pc, log, stored, pulled, peekVars, released,
                       initVars>>

\* The filter is torn down: vsink_uninit or asink_uninit, also after an init
\* that failed.
Uninit ==
    /\ pc \in {"idle", "failed"}
    /\ LET res == uninit(kind, buf)
       IN  /\ buf' = res.buf
           /\ released' = released \o res.unrefd
    /\ lastOp' = "uninit"
    /\ NoPullRecord
    /\ NoPollRecord
    /\ UNCHANGED <<cur_buf, pc, log, stored, pulled, peekVars, initVars>>

Next ==
    \/ EndFrame
    \/ GetBufferRef
    \/ RequestFrameReturn
    \/ PollFrame
    \/ Uninit

Spec == Init /\ [][Next]_vars

\* ---------------------------------------------------------------- SpecWarn
\* The sink filled far enough for the overflow warning: the graph is driven
\* from its sources, the consumer lags behind.  The same operations as in
\* Spec, with a longer run of frames and fewer other choices: a few
\* consume-mode pulls that may not call upstream, a few failed growths.
FramesDropped == cur_buf - Len(stored)

EndFrameWarn ==
    \E realloc_ok \in BOOLEAN :
        /\ cur_buf < MaxWarnFrames
        /\ realloc_ok \/ FramesDropped < MaxWarnDrops
        /\ EndFrameStep(realloc_ok)

ConsumeWarn ==
    /\ Len(pulled) < MaxWarnPulls
    /\ GetBufferRefStep(AV_BUFFERSINK_FLAG_NO_REQUEST)

NextWarn ==
    \/ EndFrameWarn
    \/ ConsumeWarn

SpecWarn == Init /\ [][NextWarn]_vars

\* ------------------------------------------- construction and negotiation
\* The terminated lists a caller may put in its parameters, and no list.
FormatCodes == 0 .. MaxFmt
IntLists ==
    {NULL_LIST} \cup
    {Append(f, -1) : f \in UNION {[1 .. n -> FormatCodes] : n \in 0 .. MaxListLen}}

\* The parameters a caller may pass to the init of a sink of kind k.
ParamsOf(k) ==
    {NULL_PARAMS} \cup
    IF k = "video"
    THEN {[NULL_PARAMS EXCEPT !.present = TRUE, !.pixel_fmts = l] :
              l \in IntLists}
    ELSE {[NULL_PARAMS EXCEPT !.present = TRUE, !.sample_fmts = l,
                              !.channel_layouts = c] :
              l \in IntLists, c \in IntLists}

\* Before init: the context is zero and the caller has its parameters.
InitNew ==
    /\ kind \in Kinds
    /\ opaque \in ParamsOf(kind)
    /\ supplied = NULL_PARAMS
    /\ buf = ZeroContext
    /\ initRet = 0
    /\ initLog = <<>>
    /\ negotiated = NOT_NEGOTIATED
    /\ cur_buf = NULL
    /\ pc = "new"
    /\ flags = 0
    /\ ret = 0
    /\ bufref = NULL
    /\ requests = 0
    /\ requestRet = 0
    /\ startSize = 0
    /\ lastOp = "new"
    /\ pollRet = 0
    /\ pollHint = 0
    /\ log = <<>>
    /\ stored = <<>>
    /\ pulled = <<>>
    /\ lastPeek = NULL
    /\ peekRun = 0
    /\ released = <<>>

queueVars == <<cur_buf, pullVars, pollVars, log, stored, pulled, peekVars,
               released>>

\* The framework calls the filter's init with the caller's parameters as
\* args; each allocation in it may fail.
FilterInit ==
    \E copy_ok, copy2_ok, alloc_ok \in BOOLEAN :
        /\ pc = "new"
        /\ supplied' = opaque
        /\ LET res == init(kind, buf, opaque, copy_ok, copy2_ok, alloc_ok)
           IN  /\ buf' = res.buf
               /\ initRet' = res.ret
               /\ initLog' = res.log
               /\ pc' = IF res.ret = 0 THEN "idle" ELSE "failed"
        /\ lastOp' = "init"
        /\ UNCHANGED <<kind, opaque, negotiated, queueVars>>

\* Format negotiation calls the filter's query_formats.
QueryFormats ==
    \E formats_ok, layouts_ok \in BOOLEAN :
        /\ pc = "idle"
        /\ buf.fifo.alloc
        /\ LET res == query_formats(kind, buf, formats_ok, layouts_ok)
           IN  negotiated' = [asked |-> TRUE, ret |-> res.ret,
                              formats |-> res.formats,
                              channel_layouts |-> res.channel_layouts]
        /\ lastOp' = "query_formats"
        /\ UNCHANGED <<buf, pc, kind, opaque, supplied, initRet, initLog,
                       queueVars>>

\* After init the caller overwrites one code in one of its arrays.
CallerChangesList ==
    /\ pc # "new"
    /\ opaque = supplied
    /\ \E field \in {"pixel_fmts", "sample_fmts", "channel_layouts"} :
         \E i \in 1 .. Len(opaque[field]) - 1 :
           \E c \in FormatCodes \ {opaque[field][i]} :
             opaque' = [opaque EXCEPT ![field][i] = c]
    /\ lastOp' = "caller"
    /\ UNCHANGED <<buf, pc, kind, supplied, initRet, initLog, negotiated,
                   queueVars>>

NextInit ==
    \/ FilterInit
    \/ QueryFormats
    \/ CallerChangesList
    \/ Uninit

SpecInit == InitNew /\ [][NextInit]_vars

\* --------------------------------------------------------------- SpecLimit
\* The life of the threshold over many warnings.  The frames that bring
\* the depth up to a threshold are not enumerated (the first takes 100 of
\* them, the eighth 1000000000): a step is the end of the end_frame call
\* whose write has brought the depth to the threshold, or has not.  The
\* state keeps the threshold and the log; the fifo and the histories of
\* handles do not follow the frames.  The consumer polls and pulls meanwhile.
NumLimitWarnings == Len(SelectSeq(log, LAMBDA e : e.level = "WARNING"))

EndFrameAtLimit ==
    \E reached \in BOOLEAN :
        /\ buf.fifo.alloc
        /\ NumLimitWarnings < MaxLimitWarnings
        /\ LET res == end_frame_warning(buf, reached)
           IN  /\ buf' = res.buf
               /\ log' = log \o res.log
        /\ lastOp' = "end_frame"
        /\ IF pc = "request" THEN UNCHANGED pullVars ELSE NoPullRecord
        /\ NoPollRecord
        /\ UNCHANGED <<cur_buf, pc, stored, pulled, peekVars, released,
                       initVars>>

NextLimit ==
    \/ EndFrameAtLimit
    \/ GetBufferRef
    \/ RequestFrameReturn
    \/ PollFrame

SpecLimit == Init /\ [][NextLimit]_vars

\* ------------------------------------------------------------------ claims
Range(s) == {s[i] : i \in 1 .. Len(s)}

IsPrefix(s, t) ==
    /\ Len(s) <= Len(t)
    /\ \A i \in 1 .. Len(s) : s[i] = t[i]

NoDuplicates(s) == \A i, j \in 1 .. Len(s) : i # j => s[i] # s[j]

\* A pull has just completed (directly, or on return from ff_request_frame).
PullCompleted == lastOp = "get_buffer_ref"
PeekMode == HasFlag(flags, AV_BUFFERSINK_FLAG_PEEK)
NoRequestMode == HasFlag(flags, AV_BUFFERSINK_FLAG_NO_REQUEST)
\* A peek has returned lastPeek and no consume has completed since.
Peeked == peekRun > 0
\* The handles buffered, oldest first.
Queue == buf.fifo.data
Depth == Len(Queue)

\* C1 - strict FIFO delivery: under any interleaving of pushes and pulls the
\* handles returned by consume-mode pulls, in the order returned, are a
\* prefix of the handles stored by end_frame, in the order stored; once as
\* many have been consumed as were stored, the two sequences are equal.
C1_FifoDelivery ==
    /\ IsPrefix(pulled, stored)
    /\ Len(pulled) = Len(stored) => pulled = stored

\* Nine pushes, which take the fifo through a growth, have all been consumed.
C1_Witness ==
    /\ Len(stored) >= 9
    /\ pulled = stored
    /\ buf.fifo.cap > FIFO_INIT_SIZE * SizeofPtr

\* C2 - ownership is transferred exactly once: a handle returned by a
\* consume-mode pull is returned by no other consume, is no longer in the
\* fifo (so no later peek returns it and the depth query does not count it),
\* is not the handle a peek since then has returned, and is not among the
\* handles teardown has released.
C2_OwnershipOnce ==
    /\ NoDuplicates(pulled)
    /\ Range(pulled) \cap Range(Queue) = {}
    /\ Peeked => lastPeek \notin Range(pulled)
    /\ PullCompleted /\ ret = 0 /\ PeekMode => bufref \notin Range(pulled)
    /\ Range(pulled) \cap Range(released) = {}

\* Handles were consumed, the rest were peeked at and then torn down.
C2_Witness ==
    /\ Len(pulled) >= 2
    /\ Peeked
    /\ ~buf.fifo.alloc
    /\ Len(released) >= 2

\* C3 - would-block contract: a pull with AV_BUFFERSINK_FLAG_NO_REQUEST that
\* found the fifo empty returns AVERROR(EAGAIN) and no handle, has made no
\* call of ff_request_frame and leaves the fifo empty; no pull with that
\* flag is ever inside ff_request_frame.
C3_WouldBlock ==
    /\ (PullCompleted /\ NoRequestMode /\ startSize = 0) =>
           /\ ret = AVERROR(EAGAIN)
           /\ bufref = NULL
           /\ requests = 0
           /\ av_fifo_size(buf.fifo) = 0
    /\ pc = "request" => ~NoRequestMode

\* A no-request pull has failed on a fifo that frames had passed through.
C3_Witness ==
    /\ PullCompleted
    /\ NoRequestMode
    /\ startSize = 0
    /\ ret = AVERROR(EAGAIN)
    /\ Len(pulled) >= 1

\* C4 - peek idempotence: a peek-mode pull that returns a handle leaves the
\* fifo as it found it, and when it follows a successful peek with no
\* consume in between it returns the same handle as that peek, calls
\* ff_request_frame not at all and ends at the depth it started at.
C4_PeekIdempotent ==
    [][ (lastOp' = "get_buffer_ref" /\ ret' = 0
            /\ HasFlag(flags', AV_BUFFERSINK_FLAG_PEEK)) =>
          /\ buf' = buf
          /\ Peeked =>
                /\ bufref' = lastPeek
                /\ requests' = 0
                /\ av_fifo_size(buf'.fifo) = startSize' ]_vars

\* A second peek in a row has returned the head while more is buffered
\* behind it and earlier handles have been consumed.
C4_Witness ==
    /\ PullCompleted /\ PeekMode /\ ret = 0
    /\ peekRun >= 2
    /\ bufref = lastPeek
    /\ Depth >= 2
    /\ Len(pulled) >= 1

\* C5 - a peeked handle stays at the head, owned by the queue: while no
\* consume has followed the peek, the handle is the head of the fifo, or,
\* after teardown, has been released exactly once; the consume that follows
\* a peek returns the peeked handle.
C5_PeekedStaysOwned ==
    /\ [](Peeked =>
            IF buf.fifo.alloc
            THEN Depth > 0 /\ Head(Queue) = lastPeek
            ELSE Cardinality({i \in 1 .. Len(released) : released[i] = lastPeek}) = 1)
    /\ [][ (Peeked /\ lastOp' = "get_buffer_ref" /\ ret' = 0
               /\ ~HasFlag(flags', AV_BUFFERSINK_FLAG_PEEK)) =>
             bufref' = lastPeek ]_vars

\* A consume has returned the handle that a peek returned before it, with
\* another handle buffered behind.
C5_Witness ==
    /\ PullCompleted /\ ~PeekMode /\ ret = 0
    /\ peekRun = 0
    /\ bufref # NULL
    /\ bufref = lastPeek
    /\ Depth >= 1

\* C6 - upstream failure propagation: a pull that called ff_request_frame
\* and got a negative value back returns that very value and no handle.
C6_UpstreamErrorVerbatim ==
    (PullCompleted /\ requests = 1 /\ requestRet < 0) =>
        /\ ret = requestRet
        /\ bufref = NULL

\* ff_request_frame pushed frames into the sink and then reported end of
\* stream: the pull returns end of stream although frames are buffered.
C6_Witness ==
    /\ PullCompleted
    /\ requests = 1
    /\ requestRet = AVERROR_EOF
    /\ ret = AVERROR_EOF
    /\ Depth >= 1

\* C7 - empty after request: when ff_request_frame returns a non-negative
\* value to a pull and the fifo is empty, the pull returns AVERROR(EINVAL),
\* which is not AVERROR(EAGAIN), and no handle.
C7_EmptyAfterRequest ==
    [][ (pc = "request" /\ pc' = "idle" /\ requestRet' >= 0
            /\ av_fifo_size(buf.fifo) = 0) =>
          /\ ret' = AVERROR(EINVAL)
          /\ ret' # AVERROR(EAGAIN)
          /\ bufref' = NULL ]_vars

\* A pull that was allowed to request got success from ff_request_frame
\* and nothing in the fifo.
C7_Witness ==
    /\ PullCompleted
    /\ ~NoRequestMode
    /\ requests = 1
    /\ requestRet >= 0
    /\ startSize = 0
    /\ ret = AVERROR(EINVAL)
    /\ Depth = 0

\* C8 - depth accounting: av_buffersink_poll_frame returns the number of
\* handles stored by end_frame so far, less the number consumed so far,
\* plus the value ff_poll_frame reported; peeks do not count.
C8_DepthAccounting ==
    lastOp = "poll_frame" =>
        pollRet = (Len(stored) - Len(pulled)) + pollHint

\* A poll after pushes, a peek and consumes, with a non-zero upstream hint.
C8_Witness ==
    /\ lastOp = "poll_frame"
    /\ Len(stored) >= 3
    /\ Len(pulled) >= 1
    /\ Len(stored) > Len(pulled)
    /\ Peeked
    /\ pollHint > 0
    /\ pollRet = (Len(stored) - Len(pulled)) + pollHint

\* C9 - growth transparency: the fifo starts with room for 8 handles; a push
\* that finds it full (depth equal to capacity) and whose av_fifo_realloc2
\* succeeds leaves every buffered handle in place, in order, with the new
\* handle behind them, in a larger block; so at all times the handles
\* stored are the handles consumed followed by the handles buffered.
C9_GrowthTransparent ==
    /\ buf.fifo.cap = 8 * SizeofPtr
    /\ [](buf.fifo.alloc => stored = pulled \o Queue)
    /\ [][ (lastOp' = "end_frame" /\ av_fifo_space(buf.fifo) < SizeofPtr
               /\ stored' # stored) =>
             /\ av_fifo_size(buf.fifo) = buf.fifo.cap
             /\ buf'.fifo.data = Append(buf.fifo.data, cur_buf')
             /\ buf'.fifo.cap > buf.fifo.cap ]_vars

\* Nine or more handles are buffered at once, none consumed, in the order
\* they were pushed, in a block that has grown.
C9_Witness ==
    /\ lastOp = "end_frame"
    /\ Depth >= 9
    /\ pulled = <<>>
    /\ Queue = stored
    /\ buf.fifo.cap > 8 * SizeofPtr

\* C10 - teardown releases ownership: once common_uninit has run, the sink
\* has no fifo, and the handles it has passed to avfilter_unref_buffer are
\* exactly the handles that were stored and not consumed, each once, in
\* order; with nothing consumed they are all the M handles stored.
C10_TeardownReleases ==
    ~buf.fifo.alloc =>
        /\ buf.fifo = NULL_FIFO
        /\ stored = pulled \o released
        /\ pulled = <<>> => released = stored

\* A sink holding three or more handles, none of them consumed, has been
\* torn down.
C10_Witness ==
    /\ lastOp = "uninit"
    /\ ~buf.fifo.alloc
    /\ pulled = <<>>
    /\ Len(released) >= 3

\* The warnings logged so far, oldest first; n is the threshold each names.
Warnings == SelectSeq(log, LAMBDA e : e.level = "WARNING")
NumWarnings == Len(Warnings)

\* C11 - warning escalation: from a fresh sink, no warning is logged while
\* the depth has not reached 100; the first warning is logged by the push
\* that brings the depth to 100 and names 100; the second by the push that
\* brings the depth to 1000 and names 1000; no other push logs a warning,
\* whether the depth stays above 100 or falls below it and comes back.
C11_WarningEscalation ==
    /\ [](/\ NumWarnings = 0 => Depth < 100
          /\ NumWarnings = 1 => Warnings[1].n = U32(100) /\ Depth < 1000
          /\ NumWarnings >= 2 => Warnings[2].n = U32(1000))
    /\ [][ LET emitted == Len(Warnings') - Len(Warnings)
           IN  /\ emitted \in {0, 1}
               /\ emitted = 1 =>
                     /\ lastOp' = "end_frame"
                     /\ \/ NumWarnings = 0 /\ Depth' = 100
                        \/ NumWarnings = 1 /\ Depth' = 1000
                        \/ NumWarnings >= 2 /\ Depth' >= 10000 ]_vars

\* The second warning has just been logged, at depth 1000, on a sink from
\* which a handle had been consumed on the way.
C11_Witness ==
    /\ lastOp = "end_frame"
    /\ NumWarnings = 2
    /\ Depth = 1000
    /\ Len(pulled) >= 1

\* The handles presented to end_frame that a failed growth kept out.
Dropped == {h \in 1 .. cur_buf : h \notin Range(stored)}

\* C12 - a failed growth drops only the push that met it: the push that
\* finds the fifo full and whose av_fifo_realloc2 fails leaves the whole
\* context as it was (contents, order, depth, capacity, warning threshold),
\* so that every later operation finds the sink as if the push had not been
\* made; it releases nothing, and its handle is never buffered, never
\* returned by a pull and never released by teardown.
C12_FailedGrowthDropsPush ==
    /\ [](\A h \in Dropped :
             /\ h \notin Range(Queue)
             /\ h \notin Range(pulled)
             /\ h \notin Range(released)
             /\ h # bufref
             /\ h # lastPeek)
    /\ [][ (cur_buf' # cur_buf /\ stored' = stored) =>
             /\ av_fifo_space(buf.fifo) < SizeofPtr
             /\ buf' = buf
             /\ released' = released
             /\ pulled' = pulled
             /\ log' = Append(log, [level |-> "ERROR", n |-> 0]) ]_vars

\* A push has just been dropped at a full fifo from which handles had been
\* consumed before; the fifo still holds its eight handles.
C12_Witness ==
    /\ lastOp = "end_frame"
    /\ cur_buf \in Dropped
    /\ Depth = 8
    /\ Len(pulled) >= 1

\* C13 - no automatic retry: a pull calls ff_request_frame at most once,
\* and only when it found the fifo empty and AV_BUFFERSINK_FLAG_NO_REQUEST
\* is not set; a pull that found the fifo non-empty makes no call, whatever
\* its flags; a pull whose call has failed returns without another call.
C13_NoRetry ==
    /\ pc = "request" => requests = 1
    /\ (pc = "request" \/ PullCompleted) =>
           /\ requests \in {0, 1}
           /\ requests = 1 => startSize = 0 /\ ~NoRequestMode
           /\ startSize # 0 => requests = 0

\* ff_request_frame reported would-block and pushed nothing: the pull has
\* returned that and has called upstream once.
C13_Witness ==
    /\ PullCompleted
    /\ requests = 1
    /\ requestRet = AVERROR(EAGAIN)
    /\ ret = AVERROR(EAGAIN)
    /\ Depth = 0

\* A step that presents a frame to end_frame.
IsPush == cur_buf' # cur_buf

\* C15 - the warning is a signal, not flow control: every push whose fifo
\* has room, or can be enlarged, appends its handle at the tail, whatever
\* the depth and the threshold are, the push that reaches the threshold
\* included; a push is dropped only at a full fifo whose growth failed;
\* and a push that logs the warning differs from one that does not only
\* by the message and by the threshold, which no other step changes.
C15_WarningIsSignal ==
    [][ /\ IsPush =>
            /\ \/ Queue' = Append(Queue, cur_buf')
               \/ /\ av_fifo_space(buf.fifo) < SizeofPtr
                  /\ buf' = buf
                  /\ log' = Append(log, [level |-> "ERROR", n |-> 0])
            /\ av_fifo_space(buf.fifo) >= SizeofPtr =>
                   Queue' = Append(Queue, cur_buf')
            /\ Len(Warnings') > Len(Warnings) =>
                   /\ Queue' = Append(Queue, cur_buf')
                   /\ log' = Append(log, [level |-> "WARNING",
                                          n |-> buf.warning_limit])
                   /\ buf'.warning_limit = U32Times10(buf.warning_limit)
        /\ Len(Warnings') = Len(Warnings) =>
               buf'.warning_limit = buf.warning_limit ]_vars

\* The push that brought the depth to 100 has logged the first warning and
\* its handle is the newest of the fifo.
C15_Witness ==
    /\ lastOp = "end_frame"
    /\ NumWarnings = 1
    /\ Depth = 100
    /\ Queue[Depth] = cur_buf
    /\ buf.warning_limit = U32(1000)

\* C17 - no frame pushed during a nested request is lost: while
\* ff_request_frame runs, the fifo holds, in push order, the handles that
\* end_frame has stored since the pull found it empty; when ff_request_frame
\* returns an error the pull leaves all of them in the fifo, and when it
\* returns success the pull takes the oldest only (or none, when peeking);
\* afterwards a handle leaves the fifo only from the head, handed to a
\* pull, or at teardown, which releases it.
C17_NestedPushesKept ==
    /\ [](pc = "request" => startSize = 0 /\ stored = pulled \o Queue)
    /\ [][ (pc = "request" /\ pc' = "idle") =>
             /\ stored' = stored
             /\ requestRet' < 0 => Queue' = Queue /\ pulled' = pulled
             /\ (requestRet' >= 0 /\ Queue # <<>>) =>
                    /\ ret' = 0
                    /\ bufref' = Head(Queue)
                    /\ Queue' = IF PeekMode THEN Queue ELSE Tail(Queue) ]_vars
    /\ [][ \/ Queue' = Queue
           \/ IsPush /\ Queue' = Append(Queue, cur_buf')
           \/ /\ Queue # <<>>
              /\ Queue' = Tail(Queue)
              /\ lastOp' = "get_buffer_ref"
              /\ ret' = 0
              /\ bufref' = Head(Queue)
           \/ /\ lastOp' = "uninit"
              /\ Queue' = <<>>
              /\ released' = released \o Queue ]_vars

\* ff_request_frame pushed three frames and reported an error: the pull
\* has returned the error and the three handles are buffered in push order.
C17_Witness ==
    /\ PullCompleted
    /\ requests = 1
    /\ requestRet = AVERROR(ENOMEM)
    /\ Depth = 3
    /\ Queue = <<cur_buf - 2, cur_buf - 1, cur_buf>>

\* C18 - a failing pull hands out nothing and removes nothing: a pull that
\* returns a negative value (AVERROR(EAGAIN), the error of ff_request_frame
\* or AVERROR(EINVAL)) leaves the output handle NULL, and neither its entry
\* nor its return changes the fifo or hands a handle to the consumer.
C18_FailingPullNoEffect ==
    /\ [](PullCompleted /\ ret < 0 => bufref = NULL)
    /\ [][ (lastOp' = "get_buffer_ref" /\ ret' < 0) =>
              /\ buf' = buf
              /\ pulled' = pulled
              /\ bufref' = NULL ]_vars
    /\ [][ lastOp' = "ff_request_frame" =>
              buf' = buf /\ pulled' = pulled ]_vars

\* A pull without AV_BUFFERSINK_FLAG_PEEK has failed on an upstream error
\* while two handles are buffered, after an earlier pull consumed one.
C18_Witness ==
    /\ PullCompleted
    /\ ~PeekMode
    /\ ret = AVERROR(EINVAL)
    /\ requestRet = AVERROR(EINVAL)
    /\ Depth = 2
    /\ Len(pulled) = 1

\* The capacity of the fifo in handles.
Capacity == buf.fifo.cap \div SizeofPtr

\* c is FIFO_INIT_SIZE doubled some number of times.
RECURSIVE IsDoubledInitSize(_)
IsDoubledInitSize(c) ==
    \/ c = FIFO_INIT_SIZE
    \/ c > FIFO_INIT_SIZE /\ c % 2 = 0 /\ IsDoubledInitSize(c \div 2)

\* C19 - capacity invariant: the depth never exceeds the capacity; the
\* capacity is FIFO_INIT_SIZE handles doubled zero or more times and never
\* shrinks; the capacity changes, and a failed growth is reported, only in
\* a push that finds the depth equal to the capacity; and a push stores
\* its handle only where there is room, so that nothing buffered is
\* overwritten.
C19_CapacityInvariant ==
    /\ [](/\ Depth <= Capacity
          /\ IsDoubledInitSize(Capacity)
          /\ buf.fifo.cap = Capacity * SizeofPtr)
    /\ [][ /\ Capacity' >= Capacity
           /\ (\/ Capacity' # Capacity
               \/ Len(log') > Len(log) /\ log'[Len(log')].level = "ERROR") =>
                  /\ IsPush
                  /\ Depth = Capacity
           /\ Capacity' # Capacity => Capacity' = 2 * Capacity
           /\ (IsPush /\ Queue' # Queue) =>
                  /\ Queue' = Append(Queue, cur_buf')
                  /\ Depth' <= Capacity' ]_vars

\* The fifo has been enlarged seven times, to 1024 handles, although one
\* growth failed on the way.
C19_Witness ==
    /\ Capacity = 1024
    /\ Depth > 512
    /\ FramesDropped = 1

\* The answer for one list of the sink: everything is acceptable when the
\* caller gave no list (a set that query_formats leaves unset is chosen by
\* the negotiation), and exactly the codes of the list when it gave one.
AnswersFor(set, list) ==
    IF list = NULL_LIST
    THEN set.how \in {"default", "unset"}
    ELSE set = [how |-> "list", list |-> SubSeq(list, 1, Len(list) - 1)]

\* C14 - format constraint: after query_formats, a sink constructed with
\* no list accepts everything, and a sink constructed with a list answers
\* with exactly the codes of that list as they were at construction,
\* whatever the caller has done to its array since.
C14_FormatConstraint ==
    negotiated.asked =>
        /\ negotiated.ret = 0
        /\ IF kind = "video"
           THEN AnswersFor(negotiated.formats, supplied.pixel_fmts)
           ELSE /\ AnswersFor(negotiated.formats, supplied.sample_fmts)
                /\ AnswersFor(negotiated.channel_layouts,
                              supplied.channel_layouts)

LtU32(a, b) == a.hi < b.hi \/ (a.hi = b.hi /\ a.lo < b.lo)

\* w divided by ten: quotient and remainder.
DivMod10(w) ==
    LET low == (w.hi % 10) * HalfModulus + w.lo
    IN  [quot |-> [hi |-> w.hi \div 10, lo |-> low \div 10], rem |-> low % 10]

\* w is 10^z: in decimal, a one followed by z zeros.
RECURSIVE IsPowerOfTen(_, _)
IsPowerOfTen(w, z) ==
    IF z = 0
    THEN w = U32(1)
    ELSE DivMod10(w).rem = 0 /\ IsPowerOfTen(DivMod10(w).quot, z - 1)

\* The values the threshold has had: the one each warning reported, then
\* the present one.
Thresholds == [i \in 1 .. NumWarnings |-> Warnings[i].n] \o <<buf.warning_limit>>

====
